---- MODULE Spec2Model ----
(***************************************************************************)
(* A state-machine model of source/main.cpp (Lambda Expressions tutorial). *)
(* main() runs four blocks A..D in sequence; every statement of main and   *)
(* of the template function operation() is one action, named after the    *)
(* source line it models.  Values that exist only after a declaration are  *)
(* held as <<>> (no value yet) or <<v>>.                                   *)
(***************************************************************************)
EXTENDS Integers, Sequences, FiniteSets

\* ------------------------------------------------------------- bounds
\* arguments handed to the callables range over -MaxArg..MaxArg
MaxArg == 3
\* an indeterminate int is read as any value of -MaxGarbage..MaxGarbage
MaxGarbage == 1
\* standard input holds at most MaxInput characters before end-of-file
MaxInput == 4

Args == (0 - MaxArg)..MaxArg
Garbage == (0 - MaxGarbage)..MaxGarbage
Chars == {"nl", "x"}
Inputs == UNION {[1..k -> Chars] : k \in 0..MaxInput}

\* ------------------------------------------------------------- state
VARIABLES
    pc,          \* the statement main() or operation() executes next
    stack,       \* activation records of operation(): a, b, func, result, ret
    out,         \* standard output, one record per line
    calls,       \* every invocation of a callable: func, args, ret
    opReturned,  \* the value the last operation() call returned
    stdin,       \* the characters standard input still holds
    reads,       \* the block of every cin.get() performed so far
    exitCode,    \* main's return value
    larger, two, lessThan2, smaller, thing, setThing,   \* block C locals
    thingLog,    \* every access to thing: op, line, whether it held a value
    multiply, numbers, total,                           \* block D locals
    scenario,    \* "program", or the name of the law a run exercises
    hin          \* the inputs a law's run was started with

vars == <<pc, stack, out, calls, opReturned, stdin, reads, exitCode,
          larger, two, lessThan2, smaller, thing, setThing, thingLog,
          multiply, numbers, total, scenario, hin>>

ctl    == <<stack, calls, opReturned, exitCode>>
io     == <<out, stdin, reads>>
blockC == <<larger, two, lessThan2, smaller, thing, setThing, thingLog>>
blockD == <<multiply, numbers, total>>
ghost  == <<scenario, hin>>

\* ------------------------------------------------------------- output
\* One line of output: who printed it, the string literal that starts it,
\* and the ints streamed after it (separated by " " when there are two).
Line(by, label, vals) == [by |-> by, label |-> label, vals |-> vals]

Last(s) == s[Len(s)]

\* ------------------------------------------------------------- callables
PrintFunctorReturnsA(a, b) ==
    [ret |-> a, lines |-> <<Line("printFunctor", "", <<a, b>>)>>]
\* struct printFunctor, operator(): prints "a b", returns 0
PrintFunctorCall(a, b) ==
    [ret |-> 0, lines |-> <<Line("printFunctor", "", <<a, b>>)>>]

AdditionSub(a, b) == [ret |-> a - b, lines |-> <<>>]
\* auto addition = [](int a, int b) { return a + b; }
Addition(a, b) == [ret |-> a + b, lines |-> <<>>]

\* [] (int a, int b) { return a > b ? a : b; }
LargerLambda(a, b) == [ret |-> IF a > b THEN a ELSE b, lines |-> <<>>]

\* [] (int a, int b) { return a * b; }
MulLambda(a, b) == [ret |-> a * b, lines |-> <<>>]

\* function<int(int, int)> multiply = <lambda>: the wrapper stores its target
MakeFunction(target) == [target |-> target]

\* function<int(int,int)>::operator(): forwards the arguments to the target
FunctionCallSwapped(w, a, b) ==
    IF w.target = "mulLambda" THEN MulLambda(a, a) ELSE LargerLambda(a, a)
FunctionCall(w, a, b) ==
    IF w.target = "mulLambda" THEN MulLambda(a, b) ELSE LargerLambda(a, b)

\* The callables of signature (int, int) -> int the program defines.
Funcs == {"printFunctor", "addition", "larger", "multiply"}

\* func(a, b) for a callable of Funcs
Invoke(func, a, b) ==
    CASE func = "printFunctor" -> PrintFunctorCall(a, b)
      [] func = "addition"     -> Addition(a, b)
      [] func = "larger"       -> LargerLambda(a, b)
      [] OTHER                 -> FunctionCall(multiply[1], a, b)

CallRec(func, args, ret) == [func |-> func, args |-> args, ret |-> ret]

\* ------------------------------------------------------------- captures
\* A closure with one captured name `a`: a copy (val), or a reference to
\* the variable named var.
MakeLessThan2ByRef(v) == [byRef |-> TRUE, val |-> 0, var |-> "two"]
\* [a = two]: a is a copy of two's value at creation
MakeLessThan2(v) == [byRef |-> FALSE, val |-> v, var |-> ""]

\* (int b) { return a < b ? a : b; }; cur is the present value of `two`
LessThan2Call(c, b, cur) ==
    LET a == IF c.byRef THEN cur ELSE c.val
    IN  IF a < b THEN a ELSE b

MakeSetThingByValue == [byRef |-> FALSE, val |-> 0, var |-> ""]
\* [&a = thing]: a is an alias of thing
MakeSetThing == [byRef |-> TRUE, val |-> 0, var |-> "thing"]

\* (int b) { a = b; }: the new value of thing and of the closure object.
\* th is thing before the call.
SetThingCall(c, b, th) ==
    IF c.byRef /\ c.var = "thing"
    THEN [thing |-> <<b>>, closure |-> c, wrote |-> TRUE]
    ELSE [thing |-> th, closure |-> [c EXCEPT !.val = b], wrote |-> FALSE]

\* ------------------------------------------------------------- count_if
\* vector<int> numbers({ 2, 5, 17, 99, 33, -6 })
Numbers == <<2, 5, 17, 99, 33, -6>>

GreaterThan100(other) == other > 100
\* auto greaterThan10 = [] (int other) { return other > 10; }
GreaterThan10(other) == other > 10

\* count_if(first, last, pred): n = 0; for each element in order,
\* if pred(element) then ++n; returns n
RECURSIVE CountIf(_, _)
CountIf(s, n) ==
    IF s = <<>> THEN n
    ELSE CountIf(Tail(s), IF GreaterThan10(Head(s)) THEN n + 1 ELSE n)

CountFromSecond(s) == CountIf(Tail(s), 0)
\* count_if(numbers.begin(), numbers.end(), greaterThan10)
CountNumbers(s) == CountIf(s, 0)

\* ------------------------------------------------------------- Init
NoInputs == [a |-> 0, b |-> 0, func |-> "", newTwo |-> 0, thing0 |-> <<>>,
             numbers |-> Numbers]

\* Nothing printed, called, read or returned yet.
FreshRun ==
    /\ out = <<>> /\ calls = <<>> /\ opReturned = <<>>
    /\ reads = <<>> /\ exitCode = <<>>

\* Locals of blocks that have not run hold no value.
FreshC ==
    /\ larger = <<>> /\ two = <<>> /\ lessThan2 = <<>> /\ smaller = <<>>
    /\ thing = <<>> /\ setThing = <<>> /\ thingLog = <<>>

FreshD == multiply = <<>> /\ numbers = <<>> /\ total = <<>>

Fresh == stack = <<>> /\ FreshRun /\ FreshC /\ FreshD

\* Entry to main(): nothing printed, standard input holds any bounded text.
Init ==
    /\ pc = "l57"
    /\ Fresh
    /\ stdin \in Inputs
    /\ scenario = "program"
    /\ hin = NoInputs

\* ------------------------------------------------------------- operation()
\* int result = func(a, b);
Op36Twice ==
    /\ pc = "l36"
    /\ LET f == stack[1]
           r == Invoke(f.func, f.a, f.b)
           c == CallRec(f.func, <<f.a, f.b>>, <<r.ret>>)
       IN  /\ stack' = <<[f EXCEPT !.result = <<r.ret>>]>>
           /\ out' = out \o r.lines \o r.lines
           /\ calls' = calls \o <<c, c>>
    /\ pc' = "l37"
    /\ UNCHANGED <<opReturned, exitCode, stdin, reads, blockC, blockD, ghost>>
Op36 ==
    /\ pc = "l36"
    /\ LET f == stack[1]
           r == Invoke(f.func, f.a, f.b)
       IN  /\ stack' = <<[f EXCEPT !.result = <<r.ret>>]>>
           /\ out' = out \o r.lines
           /\ calls' = Append(calls, CallRec(f.func, <<f.a, f.b>>, <<r.ret>>))
    /\ pc' = "l37"
    /\ UNCHANGED <<opReturned, exitCode, stdin, reads, blockC, blockD, ghost>>

\* cout << result << endl;
Op37 ==
    /\ pc = "l37"
    /\ out' = Append(out, Line("operation", "", stack[1].result))
    /\ pc' = "l38"
    /\ UNCHANGED <<ctl, stdin, reads, blockC, blockD, ghost>>

\* return result;
Op38 ==
    /\ pc = "l38"
    /\ opReturned' = stack[1].result
    /\ pc' = stack[1].ret
    /\ stack' = <<>>
    /\ UNCHANGED <<calls, exitCode, io, blockC, blockD, ghost>>

\* operation(a, b, func) called from main: a new activation record
Frame(a, b, func, ret) ==
    [a |-> a, b |-> b, func |-> func, result |-> <<>>, ret |-> ret]

\* ------------------------------------------------------------- main(): helpers
\* cout << "label" << endl;  and  cout << "label" << v << endl;
Cout(from, to, label, vals) ==
    /\ pc = from
    /\ out' = Append(out, Line("main", label, vals))
    /\ pc' = to
    /\ UNCHANGED <<ctl, stdin, reads, blockC, blockD, ghost>>

\* cin.get(): takes one character off standard input, or meets end-of-file;
\* the character returned is discarded
CinGet(from, to, block) ==
    /\ pc = from
    /\ stdin' = IF stdin = <<>> THEN <<>> ELSE Tail(stdin)
    /\ reads' = Append(reads, block)
    /\ pc' = to
    /\ UNCHANGED <<ctl, out, blockC, blockD, ghost>>

\* ------------------------------------------------------------- block A
L57 == Cout("l57", "l59", "calling functor with template function:", <<>>)

\* printFunctor p; operation(2, 3, p);
L59 ==
    /\ pc = "l59"
    /\ stack' = <<Frame(2, 3, "printFunctor", "l61")>>
    /\ pc' = "l36"
    /\ UNCHANGED <<calls, opReturned, exitCode, io, blockC, blockD, ghost>>

L61 == CinGet("l61", "l78", "A")

\* ------------------------------------------------------------- block B
L78 == Cout("l78", "l79", "calling lambda defined function:", <<>>)

\* addition(2, 3);  the value is discarded
L79 ==
    /\ pc = "l79"
    /\ LET r == Invoke("addition", 2, 3)
       IN  /\ calls' = Append(calls, CallRec("addition", <<2, 3>>, <<r.ret>>))
           /\ out' = out \o r.lines
    /\ pc' = "l80"
    /\ UNCHANGED <<stack, opReturned, exitCode, stdin, reads, blockC, blockD,
                   ghost>>

L80 == Cout("l80", "l81",
       "passing lambda defined function into template function to be called:",
       <<>>)

\* operation(2, 3, addition);
L81 ==
    /\ pc = "l81"
    /\ stack' = <<Frame(2, 3, "addition", "l84")>>
    /\ pc' = "l36"
    /\ UNCHANGED <<calls, opReturned, exitCode, io, blockC, blockD, ghost>>

L84NoPause ==
    /\ pc = "l84"
    /\ pc' = "l93"
    /\ UNCHANGED <<ctl, io, blockC, blockD, ghost>>
\* cin.get();
L84 == CinGet("l84", "l93", "B")

\* ------------------------------------------------------------- block C
\* int larger = [] (int a, int b) { return a > b ? a : b; } (2, 3);
L93 ==
    /\ pc = "l93"
    /\ LET r == Invoke("larger", 2, 3)
       IN  /\ larger' = <<r.ret>>
           /\ calls' = Append(calls, CallRec("larger", <<2, 3>>, <<r.ret>>))
    /\ pc' = "l94"
    /\ UNCHANGED <<stack, opReturned, exitCode, io, two, lessThan2, smaller,
                   thing, setThing, thingLog, blockD, ghost>>

\* cout << "larger of 2 and 3: " << larger << endl;
L94 == Cout("l94", "l97", "larger of 2 and 3: ", larger)

\* int two = 2;
L97 ==
    /\ pc = "l97"
    /\ two' = <<2>>
    /\ pc' = "l98"
    /\ UNCHANGED <<ctl, io, larger, lessThan2, smaller, thing, setThing,
                   thingLog, blockD, ghost>>

\* auto lessThan2 = [a = two] (int b) { ... };
L98 ==
    /\ pc = "l98"
    /\ lessThan2' = <<MakeLessThan2(two[1])>>
    /\ pc' = "l99"
    /\ UNCHANGED <<ctl, io, larger, two, smaller, thing, setThing, thingLog,
                   blockD, ghost>>

\* int smaller = lessThan2(3);
L99 ==
    /\ pc = "l99"
    /\ LET r == LessThan2Call(lessThan2[1], 3, two[1])
       IN  /\ smaller' = <<r>>
           /\ calls' = Append(calls, CallRec("lessThan2", <<3>>, <<r>>))
    /\ pc' = "l100"
    /\ UNCHANGED <<stack, opReturned, exitCode, io, larger, two, lessThan2,
                   thing, setThing, thingLog, blockD, ghost>>

\* cout << "smaller of 2 and 3: " << smaller << endl;
L100 == Cout("l100", "l103", "smaller of 2 and 3: ", smaller)

Access(op, line, th) == [op |-> op, line |-> line, init |-> th # <<>>]

L103Zero ==
    /\ pc = "l103"
    /\ thing' = <<0>>
    /\ pc' = "l104"
    /\ UNCHANGED <<ctl, io, larger, two, lessThan2, smaller, setThing,
                   thingLog, blockD, ghost>>
\* int thing;  no initializer: thing holds no determinate value
L103 ==
    /\ pc = "l103"
    /\ thing' = <<>>
    /\ pc' = "l104"
    /\ UNCHANGED <<ctl, io, larger, two, lessThan2, smaller, setThing,
                   thingLog, blockD, ghost>>

\* The values a read of thing can produce: its value, or, while it holds
\* none, any int.
ReadThing == IF thing = <<>> THEN Garbage ELSE {thing[1]}

\* cout << "thing: " << thing << endl;   (lines 104 and 107)
CoutThing(from, to, line) ==
    /\ pc = from
    /\ \E v \in ReadThing : out' = Append(out, Line("main", "thing: ", <<v>>))
    /\ thingLog' = Append(thingLog, Access("read", line, thing))
    /\ pc' = to
    /\ UNCHANGED <<ctl, stdin, reads, larger, two, lessThan2, smaller, thing,
                   setThing, blockD, ghost>>

L104 == CoutThing("l104", "l105", 104)

\* auto setThing = [&a = thing](int b) { a = b; };
L105 ==
    /\ pc = "l105"
    /\ setThing' = <<MakeSetThing>>
    /\ pc' = "l106"
    /\ UNCHANGED <<ctl, io, larger, two, lessThan2, smaller, thing, thingLog,
                   blockD, ghost>>

\* setThing(b), called at `line`
InvokeSetThing(b, line) ==
    LET r == SetThingCall(setThing[1], b, thing)
    IN  /\ thing' = r.thing
        /\ setThing' = <<r.closure>>
        /\ thingLog' = IF r.wrote
                       THEN Append(thingLog, Access("write", line, thing))
                       ELSE thingLog
        /\ calls' = Append(calls, CallRec("setThing", <<b>>, <<>>))

\* setThing(2);
L106 ==
    /\ pc = "l106"
    /\ InvokeSetThing(2, 106)
    /\ pc' = "l107"
    /\ UNCHANGED <<stack, opReturned, exitCode, io, larger, two, lessThan2,
                   smaller, blockD, ghost>>

L107 == CoutThing("l107", "l110", 107)

L110 == CinGet("l110", "l121", "C")

\* ------------------------------------------------------------- block D
\* function<int(int, int)> multiply = [] (int a, int b) { return a * b; };
L121 ==
    /\ pc = "l121"
    /\ multiply' = <<MakeFunction("mulLambda")>>
    /\ pc' = "l125"
    /\ UNCHANGED <<ctl, io, blockC, numbers, total, ghost>>

\* cout << "multiply(2, 3): " << multiply(2, 3) << endl;
L125 ==
    /\ pc = "l125"
    /\ LET r == Invoke("multiply", 2, 3)
       IN  /\ calls' = Append(calls, CallRec("multiply", <<2, 3>>, <<r.ret>>))
           /\ out' = out \o r.lines
                         \o <<Line("main", "multiply(2, 3): ", <<r.ret>>)>>
    /\ pc' = "l133"
    /\ UNCHANGED <<stack, opReturned, exitCode, stdin, reads, blockC, blockD,
                   ghost>>

\* vector<int> numbers({ 2, 5, 17, 99, 33, -6 });
L133 ==
    /\ pc = "l133"
    /\ numbers' = Numbers
    /\ pc' = "l140"
    /\ UNCHANGED <<ctl, io, blockC, multiply, total, ghost>>

\* int total = count_if(numbers.begin(), numbers.end(), greaterThan10);
L140 ==
    /\ pc = "l140"
    /\ total' = <<CountNumbers(numbers)>>
    /\ pc' = "l142"
    /\ UNCHANGED <<ctl, io, blockC, multiply, numbers, ghost>>

\* cout << "numbers in array greater than 10" << total << endl;
L142 == Cout("l142", "l146", "numbers in array greater than 10", total)

L146 == CinGet("l146", "l151", "D")

\* return 0;
L151 ==
    /\ pc = "l151"
    /\ exitCode' = <<0>>
    /\ pc' = "done"
    /\ UNCHANGED <<stack, calls, opReturned, io, blockC, blockD, ghost>>

\* ------------------------------------------------------------- the program
Next ==
    \/ L57 \/ L59 \/ Op36 \/ Op37 \/ Op38 \/ L61
    \/ L78 \/ L79 \/ L80 \/ L81 \/ L84
    \/ L93 \/ L94 \/ L97 \/ L98 \/ L99 \/ L100
    \/ L103 \/ L104 \/ L105 \/ L106 \/ L107 \/ L110
    \/ L121 \/ L125 \/ L133 \/ L140 \/ L142 \/ L146 \/ L151

Spec == Init /\ [][Next]_vars

\* Once a statement can run it does: main is sequential code.  A cin.get()
\* may wait for input, so no fairness is assumed of the reads.
LiveSpec == Spec /\ WF_vars(L151)

\* ------------------------------------------------------------- laws
\* The program calls its callables with the literals 2 and 3 only.  The
\* runs below start from a state of the program in which the callable
\* exists and hand it arguments drawn from bounded sets.

\* operation(a, b, func) for any a, b and any callable of Funcs, entered as
\* main enters it at lines 59 and 81; it returns to "hdone".
InitOperation ==
    /\ pc = "l36"
    /\ \E a \in Args, b \in Args, f \in Funcs :
          /\ stack = <<Frame(a, b, f, "hdone")>>
          /\ hin = [NoInputs EXCEPT !.a = a, !.b = b, !.func = f]
    /\ FreshRun /\ FreshC
    /\ multiply = <<MakeFunction("mulLambda")>>
    /\ numbers = <<>> /\ total = <<>>
    /\ stdin = <<>>
    /\ scenario = "operation"

SpecOperation == (Init \/ InitOperation) /\ [][Next]_vars

\* A direct call func(a, b), as at lines 79, 93 and 125, for any a, b and
\* any callable of Funcs.
InitCallables ==
    /\ pc = "hcall"
    /\ \E a \in Args, b \in Args, f \in Funcs :
          hin = [NoInputs EXCEPT !.a = a, !.b = b, !.func = f]
    /\ stack = <<>> /\ FreshRun /\ FreshC
    /\ multiply = <<MakeFunction("mulLambda")>>
    /\ numbers = <<>> /\ total = <<>>
    /\ stdin = <<>>
    /\ scenario = "callables"

HInvoke ==
    /\ pc = "hcall"
    /\ LET r == Invoke(hin.func, hin.a, hin.b)
       IN  /\ calls' = Append(calls,
                              CallRec(hin.func, <<hin.a, hin.b>>, <<r.ret>>))
           /\ out' = out \o r.lines
    /\ pc' = "hdone"
    /\ UNCHANGED <<stack, opReturned, exitCode, stdin, reads, blockC, blockD,
                   ghost>>

SpecCallables == (Init \/ InitCallables) /\ [][Next \/ HInvoke]_vars

\* lessThan2 right after line 98 (two = 2, the closure created), called
\* with any b before and after any value is assigned to two.
InitCapture ==
    /\ pc = "hcap"
    /\ \E v \in Args, b \in Args :
          hin = [NoInputs EXCEPT !.newTwo = v, !.b = b]
    /\ stack = <<>> /\ FreshRun /\ FreshD
    /\ larger = <<>> /\ smaller = <<>>
    /\ two = <<2>>
    /\ lessThan2 = <<MakeLessThan2(2)>>
    /\ thing = <<>> /\ setThing = <<>> /\ thingLog = <<>>
    /\ stdin = <<>>
    /\ scenario = "capture"

\* lessThan2(b)
HCallLessThan2 ==
    /\ pc \in {"hcap", "hcapWritten"}
    /\ LET r == LessThan2Call(lessThan2[1], hin.b, two[1])
       IN  /\ smaller' = <<r>>
           /\ calls' = Append(calls, CallRec("lessThan2", <<hin.b>>, <<r>>))
    /\ pc' = IF pc = "hcap" THEN "hcapCalled" ELSE "hdone"
    /\ UNCHANGED <<stack, opReturned, exitCode, io, larger, two, lessThan2,
                   thing, setThing, thingLog, blockD, ghost>>

\* two = v;  an assignment to the captured variable after the capture
HWriteTwo ==
    /\ pc \in {"hcap", "hcapCalled"}
    /\ two' = <<hin.newTwo>>
    /\ pc' = "hcapWritten"
    /\ UNCHANGED <<ctl, io, larger, lessThan2, smaller, thing, setThing,
                   thingLog, blockD, ghost>>

SpecCapture ==
    (Init \/ InitCapture) /\ [][Next \/ HCallLessThan2 \/ HWriteTwo]_vars

\* setThing right after line 105, called with any b while thing holds no
\* value or any value.
InitRef ==
    /\ pc = "href"
    /\ \E b \in Args, t \in {<<>>} \cup {<<v>> : v \in Args} :
          /\ hin = [NoInputs EXCEPT !.b = b, !.thing0 = t]
          /\ thing = t
    /\ stack = <<>> /\ FreshRun /\ FreshD
    /\ larger = <<>> /\ smaller = <<>> /\ two = <<>> /\ lessThan2 = <<>>
    /\ setThing = <<MakeSetThing>>
    /\ thingLog = <<>>
    /\ stdin = <<>>
    /\ scenario = "reference"

\* setThing(b);
HSetThing ==
    /\ pc = "href"
    /\ InvokeSetThing(hin.b, 106)
    /\ pc' = "hdone"
    /\ UNCHANGED <<stack, opReturned, exitCode, io, larger, two, lessThan2,
                   smaller, blockD, ghost>>

SpecRef == (Init \/ InitRef) /\ [][Next \/ HSetThing]_vars

\* The orders the six elements of Numbers can be stored in.
Perms ==
    {[i \in 1..Len(Numbers) |-> Numbers[p[i]]] :
        p \in {q \in [1..Len(Numbers) -> 1..Len(Numbers)] :
                 \A i, j \in 1..Len(Numbers) : q[i] = q[j] => i = j}}

\* Block D from line 140 on, the vector holding the six numbers in any
\* order.
InitCount ==
    /\ pc = "l140"
    /\ \E s \in Perms :
          /\ numbers = s
          /\ hin = [NoInputs EXCEPT !.numbers = s]
    /\ stack = <<>> /\ FreshRun /\ FreshC
    /\ multiply = <<MakeFunction("mulLambda")>>
    /\ total = <<>>
    /\ stdin = <<>>
    /\ scenario = "count"

SpecCount == (Init \/ InitCount) /\ [][Next]_vars

\* ------------------------------------------------------------- properties
Hdr57 == Line("main", "calling functor with template function:", <<>>)
Hdr78 == Line("main", "calling lambda defined function:", <<>>)
Hdr80 == Line("main",
    "passing lambda defined function into template function to be called:",
    <<>>)

InProgram == scenario = "program"

\* C1 as stated: the count of the elements of {2, 5, 17, 99, 33, -6} that
\* are greater than 10 is 2.
C1_CountIsTwo == (InProgram /\ total # <<>>) => total = <<2>>

\* C1, amended: counting the elements of {2, 5, 17, 99, 33, -6} that satisfy
\* greaterThan10 yields exactly 3 (the elements 17, 99 and 33), and that is
\* the number printed after the label.
C1_CountIsThree ==
    (InProgram /\ total # <<>>) =>
        /\ total = <<3>>
        /\ total[1] = Cardinality({i \in 1..Len(numbers) :
                                     numbers[i] \in {17, 99, 33}})
        /\ pc \in {"l146", "l151", "done"} =>
               Last(out) = Line("main", "numbers in array greater than 10",
                                <<3>>)

C1_Witness == InProgram /\ pc = "done" /\ total = <<3>>

Min(x, y) == IF x < y THEN x ELSE y

CallsOf(f) == SelectSeq(calls, LAMBDA c : c.func = f)

\* C2: lessThan2, created while two = 2, returns min(2, b) for every b
\* (2 for b = 3), whatever is assigned to two after the capture: a call
\* made after the assignment returns what the same call returned before.
C2_ValueCaptureIsolation ==
    /\ \A i \in 1..Len(calls) :
          calls[i].func = "lessThan2" =>
              calls[i].ret = <<Min(2, calls[i].args[1])>>
    /\ \A i, j \in 1..Len(calls) :
          (calls[i].func = "lessThan2" /\ calls[j].func = "lessThan2"
             /\ calls[i].args = calls[j].args) => calls[i].ret = calls[j].ret
    /\ (InProgram /\ smaller # <<>>) => smaller = <<2>>

C2_Witness ==
    /\ scenario = "capture" /\ pc = "hdone"
    /\ two = <<-1>> /\ hin.b = 3
    /\ Len(calls) = 2 /\ calls[1].ret = <<2>> /\ calls[2].ret = <<2>>

ThingLines == SelectSeq(out, LAMBDA l : l.label = "thing: ")

\* C3: right after setThing(b) returns, thing equals b, for every b and
\* whatever thing held before; the program calls setThing(2), so the second
\* "thing: " line shows 2.
C3_ReferenceCaptureMutation ==
    /\ (calls # <<>> /\ Last(calls).func = "setThing") =>
           thing = <<Last(calls).args[1]>>
    /\ (InProgram /\ pc = "l107") => thing = <<2>>
    /\ (InProgram /\ Len(ThingLines) >= 2) =>
           ThingLines[2] = Line("main", "thing: ", <<2>>)

C3_Witness ==
    /\ scenario = "reference" /\ pc = "hdone"
    /\ hin.thing0 = <<1>> /\ hin.b = -3 /\ thing = <<-3>>

\* C4: operation(a, b, func) calls func once, with (a, b); prints the value
\* func returned on one line of its own, after every line func printed;
\* returns that value; and changes nothing else.
C4_OperationContract ==
    /\ (scenario = "operation" /\ pc = "hdone") =>
          /\ Len(calls) = 1
          /\ calls[1].func = hin.func
          /\ calls[1].args = <<hin.a, hin.b>>
          /\ opReturned = calls[1].ret
          /\ Len(out) >= 1
          /\ Last(out) = Line("operation", "", calls[1].ret)
          /\ \A i \in 1..(Len(out) - 1) : out[i].by = hin.func
          /\ stack = <<>> /\ reads = <<>> /\ exitCode = <<>> /\ stdin = <<>>
          /\ FreshC
          /\ multiply = <<MakeFunction("mulLambda")>>
          /\ numbers = <<>> /\ total = <<>>
    /\ (InProgram /\ pc = "l61") =>
          /\ calls = <<CallRec("printFunctor", <<2, 3>>, opReturned)>>
          /\ Len(out) = 3 /\ out[3] = Line("operation", "", opReturned)
    /\ (InProgram /\ pc = "l84") =>
          /\ Len(CallsOf("addition")) = 2
          /\ Last(calls) = CallRec("addition", <<2, 3>>, opReturned)
          /\ Len(out) = 6 /\ out[6] = Line("operation", "", opReturned)

C4_Witness ==
    /\ scenario = "operation" /\ pc = "hdone"
    /\ hin.func = "printFunctor" /\ hin.a = -2 /\ hin.b = 3
    /\ out = <<Line("printFunctor", "", <<-2, 3>>),
               Line("operation", "", <<0>>)>>
    /\ opReturned = <<0>>

\* C5: the callable-object demo prints the header, then "2 3" (by the
\* functor), then "0" (by operation), in this order and nothing else before
\* the pause; printFunctor returns 0 for every pair of arguments.
C5_FunctorDemo ==
    /\ InProgram =>
          /\ Len(out) >= 1 => out[1] = Hdr57
          /\ Len(out) >= 2 => out[2] = Line("printFunctor", "", <<2, 3>>)
          /\ Len(out) >= 3 => out[3] = Line("operation", "", <<0>>)
          /\ pc = "l61" => Len(out) = 3
    /\ \A i \in 1..Len(calls) :
          calls[i].func = "printFunctor" => calls[i].ret = <<0>>

C5_Witness ==
    /\ InProgram /\ pc = "l61"
    /\ out = <<Hdr57, Line("printFunctor", "", <<2, 3>>),
               Line("operation", "", <<0>>)>>

\* C6: addition returns a + b; the direct call addition(2, 3) yields 5 and
\* prints nothing; operation(2, 3, addition) prints the one line "5" and
\* returns 5.
C6_AdditionDemo ==
    /\ \A i \in 1..Len(calls) :
          calls[i].func = "addition" =>
              calls[i].ret = <<calls[i].args[1] + calls[i].args[2]>>
    /\ (scenario = "callables" /\ hin.func = "addition") => out = <<>>
    /\ (InProgram /\ pc = "l80") =>
          /\ Last(calls) = CallRec("addition", <<2, 3>>, <<5>>)
          /\ Len(out) = 4 /\ out[4] = Hdr78
    /\ (InProgram /\ pc = "l84") =>
          /\ Len(out) = 6 /\ out[5] = Hdr80
          /\ out[6] = Line("operation", "", <<5>>)
          /\ opReturned = <<5>>

C6_Witness ==
    /\ InProgram /\ pc = "l84" /\ opReturned = <<5>>
    /\ CallsOf("addition") = <<CallRec("addition", <<2, 3>>, <<5>>),
                               CallRec("addition", <<2, 3>>, <<5>>)>>

\* C7: in whatever order the vector holds the six numbers, the scan counts
\* as many elements greater than 10 as it counts in the order
\* {2, 5, 17, 99, 33, -6}, and the vector is the same after the scan.
C7_CountOrderIndependent ==
    total # <<>> =>
        /\ total = <<CountNumbers(Numbers)>>
        /\ numbers = hin.numbers

C7_Witness ==
    /\ scenario = "count" /\ pc = "l142"
    /\ numbers = <<99, 33, 17, -6, 5, 2>> /\ total = <<3>>

\* C8: called through the wrapper, multiply returns a * b, which is what
\* the stored closure returns when called directly; multiply(2, 3) is 6 and
\* is printed after its label.
C8_WrapperEquivalence ==
    /\ \A i \in 1..Len(calls) :
          calls[i].func = "multiply" =>
              /\ calls[i].ret = <<calls[i].args[1] * calls[i].args[2]>>
              /\ calls[i].ret =
                     <<MulLambda(calls[i].args[1], calls[i].args[2]).ret>>
    /\ (InProgram /\ pc = "l133") =>
          /\ Last(calls) = CallRec("multiply", <<2, 3>>, <<6>>)
          /\ Last(out) = Line("main", "multiply(2, 3): ", <<6>>)

C8_Witness ==
    /\ scenario = "callables" /\ pc = "hdone"
    /\ hin.func = "multiply" /\ hin.a = -2 /\ hin.b = 3
    /\ calls = <<CallRec("multiply", <<-2, 3>>, <<-6>>)>>

\* The statements of main in the order of the source text; a statement of
\* operation() is named with the statement it returns to.
Order ==
    << <<"l57", "">>, <<"l59", "">>, <<"l36", "l61">>, <<"l37", "l61">>,
       <<"l38", "l61">>, <<"l61", "">>,
       <<"l78", "">>, <<"l79", "">>, <<"l80", "">>, <<"l81", "">>,
       <<"l36", "l84">>, <<"l37", "l84">>, <<"l38", "l84">>, <<"l84", "">>,
       <<"l93", "">>, <<"l94", "">>, <<"l97", "">>, <<"l98", "">>,
       <<"l99", "">>, <<"l100", "">>, <<"l103", "">>, <<"l104", "">>,
       <<"l105", "">>, <<"l106", "">>, <<"l107", "">>, <<"l110", "">>,
       <<"l121", "">>, <<"l125", "">>, <<"l133", "">>, <<"l140", "">>,
       <<"l142", "">>, <<"l146", "">>, <<"l151", "">>, <<"done", "">> >>

Tag == IF stack # <<>> THEN <<pc, stack[1].ret>> ELSE <<pc, "">>

InOrder == \E i \in 1..Len(Order) : Order[i] = Tag

Pos == CHOOSE i \in 1..Len(Order) : Order[i] = Tag

\* The pauses that end the blocks A, B, C and D.
Pauses == {i \in 1..Len(Order) :
             Order[i][1] \in {"l61", "l84", "l110", "l146"}}

Blocks == <<"A", "B", "C", "D">>

ReadsInOrder ==
    /\ InOrder
    /\ Len(reads) = Cardinality({i \in Pauses : i < Pos})
    /\ reads = SubSeq(Blocks, 1, Len(reads))
    /\ pc = "done" <=> exitCode # <<>>
    /\ exitCode # <<>> => exitCode = <<0>>

\* C9: every step of the program goes to the next statement of the source
\* text (blocks A, B, C, D in this order, no branch, no statement twice);
\* the reads performed are exactly the pauses that end the blocks passed,
\* four by the end; and once the fourth has returned the program ends with
\* exit code 0.
C9_LinearRun ==
    /\ []ReadsInOrder
    /\ [][Pos' = Pos + 1]_vars
    /\ (Len(reads) = 4) ~> (pc = "done" /\ exitCode = <<0>>)

C9_Witness ==
    /\ InProgram /\ pc = "done"
    /\ reads = <<"A", "B", "C", "D">> /\ exitCode = <<0>>

ThingAccesses ==
    << [op |-> "read", line |-> 104, init |-> FALSE],
       [op |-> "write", line |-> 106, init |-> FALSE],
       [op |-> "read", line |-> 107, init |-> TRUE] >>

\* C10: thing is declared without a value; it is first read, for the first
\* "thing: " line, while it holds none; it is written once in the whole
\* run, by setThing(2) at line 106, and read once more at line 107; block D
\* and the end of main do not touch it.
C10_ThingAccesses ==
    InProgram =>
        /\ Len(thingLog) <= Len(ThingAccesses)
        /\ thingLog = SubSeq(ThingAccesses, 1, Len(thingLog))
        /\ thing # <<>> <=> Len(thingLog) >= 2
        /\ thing # <<>> => thing = <<2>>
        /\ Len(CallsOf("setThing")) <= 1
        /\ Len(thingLog) >= 2 =>
               CallsOf("setThing") = <<CallRec("setThing", <<2>>, <<>>)>>
        /\ pc \in {"l110", "l121", "l125", "l133", "l140", "l142", "l146",
                    "l151", "done"} => thingLog = ThingAccesses

\* The first "thing: " line shows a value that is neither 0 nor the 2
\* assigned later.
C10_Witness ==
    /\ InProgram /\ pc = "done"
    /\ thingLog = ThingAccesses
    /\ ThingLines = <<Line("main", "thing: ", <<-1>>),
                      Line("main", "thing: ", <<2>>)>>

====
